---- MODULE Spec2Model ----
(***************************************************************************)
(* Model of crates/vive-hid/src/lib.rs: the HID protocol layer of the Vive *)
(* Pro 2 driver.  Reports are 64-byte tuples (Rust index i is TLA+ index   *)
(* i + 1).  One step of the model is one transport operation of the        *)
(* running call together with all the code up to the next one.             *)
(***************************************************************************)
EXTENDS Integers, Sequences, FiniteSets, TLC

VARIABLES
    pc,            \* position of the running call
    op,            \* the public operation that was called
    arg,           \* its inputs
    ret,           \* its result: None while running, then Ok / Err / Panic
    report,        \* SteamDevice::read_config: let mut report = [0u8; 64]
    read_retries,  \* SteamDevice::read_config: let mut read_retries
    out,           \* read_config (both families): the accumulator Vec
    buf,           \* ViveDevice::read_config: let mut buf = [0u8; 62]
    total_len,     \* ViveDevice::read_config: declared total length
    read,          \* ViveDevice::read_config: let mut read
    hidapi,        \* static HIDAPI: OnceCell<HidApi>
    wire,          \* the last transport operations the call issued
    fails,         \* consecutive failed get_feature_report calls so far
    nchunks,       \* non-empty chunks the device has delivered so far
    device         \* the chunks the device has handed out to read_config: their declared
                   \* lengths summed, their payload bytes concatenated

vars == <<pc, op, arg, ret, report, read_retries, out, buf, total_len, read,
          hidapi, wire, fails, nchunks, device>>

\* The call that is running, and whether it has ended.
Steam == op = "steam_read_config"
Vive == op = "vive_read_config"
SetRes == op = "set_resolution"
Done == pc = "done"

---------------------------------------------------------------------------
\* Bounds of the model.
MaxChunks == 3     \* non-empty chunks the device delivers in one call
WireWindow == 2    \* transport operations remembered in wire
MaxDevs == 2       \* devices in the enumeration list
MaxPayload == 61   \* longest payload handed to write_feature
MaxThreads == 2    \* threads that call get_hidapi

\* Program constants.
STEAM_VID == 10462   \* 0x28de
STEAM_PID == 8960    \* 0x2300
VIVE_VID == 2996     \* 0x0bb4
VIVE_PID == 834      \* 0x0342
ReportLen == 64
BufLen == 62
MaxSize == 62
MaxRetries == 5
HeaderLen == 128

---------------------------------------------------------------------------
\* Results (type Result<T, Error>) and the Error enum.
NoRet == [tag |-> "None", err |-> "", msg |-> "", val |-> <<>>]
Ok(v) == [tag |-> "Ok", err |-> "", msg |-> "", val |-> v]
Err(e) == [tag |-> "Err", err |-> e, msg |-> "", val |-> <<>>]
ProtocolError(m) == [tag |-> "Err", err |-> "ProtocolError", msg |-> m, val |-> <<>>]
\* A Rust panic (slice index out of range): the call aborts, nothing is returned.
Panic(m) == [tag |-> "Panic", err |-> "", msg |-> m, val |-> <<>>]

---------------------------------------------------------------------------
\* Byte buffers.
Zeros(n) == [i \in 1..n |-> 0]
\* s[a..b] of Rust (0-based, b exclusive)
Slice(s, a, b) == SubSeq(s, a + 1, b)
\* dst[a..a+len(src)].copy_from_slice(src)
CopyInto(dst, a, src) ==
    [i \in 1..Len(dst) |-> IF i > a /\ i <= a + Len(src) THEN src[i - a] ELSE dst[i]]
\* u32::to_le_bytes(n as u32); every n of the model is below 2^31, so the
\* cast truncates nothing
ToLE32(n) ==
    <<n % 256, (n \div 256) % 256, (n \div 65536) % 256, (n \div 16777216) % 256>>
\* u32::from_le_bytes(b) as usize
FromLE32(b) == b[1] + 256 * b[2] + 65536 * b[3] + 16777216 * b[4]

\* The transport: a window of the last operations issued on the HidDevice.
Event(call, rep, ok) == [call |-> call, report |-> rep, ok |-> ok]
Push(w, e) ==
    LET a == Append(w, e)
    IN  IF Len(a) > WireWindow THEN SubSeq(a, Len(a) - WireWindow + 1, Len(a)) ELSE a

\* What a device may put into a 64-byte report: the given header bytes,
\* then filler that depends on the position.
Seeds == {0, 200}
Fill(seed, i) == (seed + i) % 256
Report64(hdr, seed) ==
    [i \in 1..ReportLen |-> IF i <= Len(hdr) THEN hdr[i] ELSE Fill(seed, i - 1)]

---------------------------------------------------------------------------
\* SteamDevice::read_config

\* The chunk-length bytes a Steam device may report.
SteamSizes == {0, 1, 2, 62, 63, 255}
SteamReplies(id) ==
    {Report64(<<id, n>>, s) : n \in SteamSizes, s \in Seeds}

\* if read_retries > 5 { return Err(ConfigReadFailed) } read_retries += 1
RetryExhausted(retries) == retries > MaxRetries

\* (mutant) the counter is left as it is after a successful read
NoReset(retries) == retries

\* read_retries = 0 after a successful read (lines 80 and 91)
AfterSuccess(retries) == 0

\* (mutant) the buffer is handed over as the last read left it
ChunkRequestStale == report

\* report[0] = 17: the buffer the chunk loop hands to get_feature_report
ChunkRequest == CopyInto(report, 0, <<17>>)

SteamCall ==
    /\ pc = "idle"
    /\ pc' = "steam_init"
    /\ op' = "steam_read_config"
    /\ report' = CopyInto(Zeros(ReportLen), 0, <<16>>)
    /\ read_retries' = 0
    /\ UNCHANGED <<arg, ret, out, buf, total_len, read, hidapi, wire, fails, nchunks, device>>

\* while self.0.get_feature_report(&mut report).is_err() { ... }: one failed attempt
SteamInitFail ==
    /\ pc = "steam_init"
    /\ wire' = Push(wire, Event("get_feature_report", report, FALSE))
    /\ fails' = fails + 1
    /\ IF RetryExhausted(read_retries)
       THEN /\ pc' = "done"
            /\ ret' = Err("ConfigReadFailed")
            /\ UNCHANGED read_retries
       ELSE /\ read_retries' = read_retries + 1
            /\ UNCHANGED <<pc, ret>>
    /\ UNCHANGED <<op, arg, report, out, buf, total_len, read, hidapi, nchunks, device>>

\* the attempt that succeeds ends the while loop; read_retries = 0; out = Vec::new()
SteamInitOk ==
    /\ pc = "steam_init"
    /\ \E r \in SteamReplies(report[1]) :
        /\ report' = r
        /\ wire' = Push(wire, Event("get_feature_report", r, TRUE))
    /\ read_retries' = AfterSuccess(read_retries)
    /\ out' = <<>>
    /\ fails' = 0
    /\ pc' = "steam_chunk"
    /\ UNCHANGED <<op, arg, ret, buf, total_len, read, hidapi, nchunks, device>>

\* loop { report[0] = 17; if get_feature_report fails { ...; continue } }
SteamChunkFail ==
    /\ pc = "steam_chunk"
    /\ report' = ChunkRequest
    /\ wire' = Push(wire, Event("get_feature_report", report', FALSE))
    /\ fails' = fails + 1
    /\ IF RetryExhausted(read_retries)
       THEN /\ pc' = "done"
            /\ ret' = Err("ConfigReadFailed")
            /\ UNCHANGED read_retries
       ELSE /\ read_retries' = read_retries + 1
            /\ UNCHANGED <<pc, ret>>
    /\ UNCHANGED <<op, arg, out, buf, total_len, read, hidapi, nchunks, device>>

\* out.extend_from_slice(&report[2..2 + report[1] as usize])
SteamAppend(acc, rep) == acc \o Slice(rep, 2, 2 + rep[2])

\* The device's view of a report-17 reply it sent: a non-zero length byte
\* hands out that many bytes, the ones that follow it (as far as the report
\* reaches).
SteamHanded(dev, r) ==
    IF r[2] = 0 THEN dev
    ELSE [declared |-> dev.declared + r[2],
          blob |-> dev.blob \o Slice(r, 2, IF 2 + r[2] > ReportLen THEN ReportLen ELSE 2 + r[2])]

\* a successful report-17 read: reset the counter, stop on n == 0, else append
SteamChunkOk ==
    /\ pc = "steam_chunk"
    /\ \E r \in SteamReplies(ChunkRequest[1]) :
        /\ (r[2] # 0 /\ 2 + r[2] <= ReportLen) => nchunks < MaxChunks
        /\ report' = r
        /\ wire' = Push(wire, Event("get_feature_report", r, TRUE))
        /\ read_retries' = AfterSuccess(read_retries)
        /\ fails' = 0
        /\ device' = SteamHanded(device, r)
        /\ IF r[2] = 0
           THEN /\ pc' = "steam_decode"
                /\ UNCHANGED <<out, ret, nchunks>>
           ELSE IF 2 + r[2] > ReportLen
           THEN /\ pc' = "done"
                /\ ret' = Panic("range end index out of range for slice")
                /\ UNCHANGED <<out, nchunks>>
           ELSE /\ out' = SteamAppend(out, r)
                /\ nchunks' = nchunks + 1
                /\ UNCHANGED <<pc, ret>>
    /\ UNCHANGED <<op, arg, buf, total_len, read, hidapi>>

\* ZlibDecoder + read_to_string + serde_json::from_str: external decoders,
\* either of which may reject the bytes.
SteamDecode ==
    /\ pc = "steam_decode"
    /\ pc' = "done"
    /\ \E good \in BOOLEAN :
        ret' = IF good THEN Ok(<<>>) ELSE Err("ConfigReadFailed")
    /\ UNCHANGED <<op, arg, report, read_retries, out, buf, total_len, read,
                   hidapi, wire, fails, nchunks, device>>

---------------------------------------------------------------------------
\* ViveDevice: the report codec

\* fn write(&self, id, data): report[0] = id; report[1..1 + data.len()] = data
WriteReport(id, data) == CopyInto(CopyInto(Zeros(ReportLen), 0, <<id>>), 1, data)

\* if size > 62 { return Err(ProtocolError("wrong size")) }
SizeTooBig(size) == size > MaxSize

\* out[..size].copy_from_slice(&data[strip_prefix.len() + 2..strip_prefix.len() + 2 + size])
Payload(data, plen, size) == Slice(data, plen + 2, plen + 2 + size)

\* fn read(&self, id, strip_prefix, out), applied to the report `data` that
\* self.0.read delivered: the result, and the caller's buffer afterwards.
ViveRead(data, id, strip_prefix, outbuf) ==
    LET plen == Len(strip_prefix)
        size == data[2 + plen]
    IN  IF data[1] # id
        THEN [ret |-> ProtocolError("wrong report id"), out |-> outbuf]
        ELSE IF Slice(data, 1, 1 + plen) # strip_prefix
        THEN [ret |-> ProtocolError("wrong prefix"), out |-> outbuf]
        ELSE IF SizeTooBig(size)
        THEN [ret |-> ProtocolError("wrong size"), out |-> outbuf]
        ELSE IF plen + 2 + size > ReportLen \/ size > Len(outbuf)
        THEN [ret |-> Panic("range end index out of range for slice"), out |-> outbuf]
        ELSE [ret |-> Ok(<<size>>), out |-> CopyInto(outbuf, 0, Payload(data, plen, size))]

---------------------------------------------------------------------------
\* ViveDevice::read_config

\* b"mfg-r-devsn" of read_devsn, b"mfg-r-ipdadc" of read_ipd
MfgCommand(o) ==
    IF o = "vive_read_devsn"
    THEN <<109, 102, 103, 45, 114, 45, 100, 101, 118, 115, 110>>
    ELSE <<109, 102, 103, 45, 114, 45, 105, 112, 100, 97, 100, 99>>

LenQuery == <<234, 177>>       \* &[0xea, 0xb1]
ChunkQuery == <<235, 177>>     \* &[0xeb, 0xb1]

\* (mutant) the request never advances its offset
ChunkReqNoOffset(offset) == CopyInto(Zeros(63), 0, <<235, 177, 4>>)

\* let mut req = [0; 63]; req[0] = 0xeb; req[1] = 0xb1; req[2] = 0x04;
\* req[3..7].copy_from_slice(&u32::to_le_bytes(read as u32))
ChunkReq(offset) == CopyInto(CopyInto(Zeros(63), 0, <<235, 177, 4>>), 3, ToLE32(offset))

\* The totals a device may declare, and its replies to the length query.
Totals == {0, 2, 60, 62, 70, 130, 300}
LenReplies ==
    {Report64(<<1>> \o LenQuery \o <<4>> \o ToLE32(t), 0) : t \in Totals}
    \cup {Report64(<<1>> \o LenQuery \o <<n>> \o ToLE32(2), 0) : n \in {0, 3, 5, 61, 62, 63}}
    \cup {Report64(<<3>> \o LenQuery \o <<4>>, 0), Report64(<<1, 234, 0, 4>>, 0)}

\* Its replies to a chunk query: well-formed chunks, and malformed reports.
ChunkSizes == {0, 1, 10, 60}
ChunkReplies ==
    {Report64(<<1>> \o ChunkQuery \o <<n>>, s) : n \in ChunkSizes, s \in Seeds}
    \cup {Report64(<<1>> \o ChunkQuery \o <<n>>, 0) : n \in {61, 62, 63, 255}}
    \cup {Report64(<<3>> \o ChunkQuery \o <<1>>, 0), Report64(<<1, 235, 0, 1>>, 0)}

\* The output report the call is about to write.
Request ==
    IF pc = "vive_len_write" THEN WriteReport(1, LenQuery)
    ELSE IF pc = "mfg_write" THEN WriteReport(2, MfgCommand(op))
    ELSE WriteReport(1, ChunkReq(read))

\* The prefix the call is about to read with.
Prefix ==
    IF pc = "vive_len_read" THEN LenQuery
    ELSE IF pc = "mfg_read" THEN <<>>
    ELSE ChunkQuery

\* (mutant) the loop runs until the count equals the total
LoopCondNotEqual(rd, total) == rd # total

\* while read < total_len
LoopCond(rd, total) == rd < total
LoopPc(rd, total) == IF LoopCond(rd, total) THEN "vive_chunk_write" ELSE "vive_after_loop"

ViveCall ==
    /\ pc = "idle"
    /\ pc' = "vive_len_write"
    /\ op' = "vive_read_config"
    /\ buf' = Zeros(BufLen)
    /\ UNCHANGED <<arg, ret, report, read_retries, out, total_len, read, hidapi,
                   wire, fails, nchunks, device>>

\* self.0.write(&report)? fails: the HidError is returned
ViveWriteFail ==
    /\ pc \in {"vive_len_write", "vive_chunk_write", "mfg_write"}
    /\ wire' = Push(wire, Event("write", Request, FALSE))
    /\ pc' = "done"
    /\ ret' = Err("Hid")
    /\ UNCHANGED <<op, arg, report, read_retries, out, buf, total_len, read,
                   hidapi, fails, nchunks, device>>

\* self.0.read(&mut data)? fails: the HidError is returned
ViveReadFail ==
    /\ pc \in {"vive_len_read", "vive_chunk_read", "mfg_read"}
    /\ wire' = Push(wire, Event("read", Zeros(ReportLen), FALSE))
    /\ pc' = "done"
    /\ ret' = Err("Hid")
    /\ UNCHANGED <<op, arg, report, read_retries, out, buf, total_len, read,
                   hidapi, fails, nchunks, device>>

\* self.write(0x01, &[0xea, 0xb1])?
ViveLenWrite ==
    /\ pc = "vive_len_write"
    /\ wire' = Push(wire, Event("write", Request, TRUE))
    /\ pc' = "vive_len_read"
    /\ UNCHANGED <<op, arg, ret, report, read_retries, out, buf, total_len, read,
                   hidapi, fails, nchunks, device>>

\* let size = self.read(0x01, &[0xea, 0xb1], &mut buf)?; if size != 4 {..};
\* total_len = u32::from_le_bytes(buf[0..4]); read = 0; out = Vec::with_capacity
ViveLenRead ==
    /\ pc = "vive_len_read"
    /\ \E d \in LenReplies :
        LET r == ViveRead(d, 1, Prefix, buf)
        IN  /\ wire' = Push(wire, Event("read", d, TRUE))
            /\ buf' = r.out
            /\ IF r.ret.tag # "Ok"
               THEN /\ pc' = "done"
                    /\ ret' = r.ret
                    /\ UNCHANGED <<total_len, read, out>>
               ELSE IF r.ret.val[1] # 4
               THEN /\ pc' = "done"
                    /\ ret' = ProtocolError("config length has 4 bytes")
                    /\ UNCHANGED <<total_len, read, out>>
               ELSE /\ total_len' = FromLE32(Slice(r.out, 0, 4))
                    /\ read' = 0
                    /\ out' = <<>>
                    /\ pc' = LoopPc(0, total_len')
                    /\ UNCHANGED ret
    /\ UNCHANGED <<op, arg, report, read_retries, hidapi, fails, nchunks, device>>

\* self.write(0x01, &req)?
ViveChunkWrite ==
    /\ pc = "vive_chunk_write"
    /\ wire' = Push(wire, Event("write", Request, TRUE))
    /\ pc' = "vive_chunk_read"
    /\ UNCHANGED <<op, arg, ret, report, read_retries, out, buf, total_len, read,
                   hidapi, fails, nchunks, device>>

\* The device's view of a chunk reply it sent: a report with the expected id
\* and prefix and a length byte of at most 62 hands out that many bytes, the
\* ones that follow the length byte (as far as the report reaches).
WellFormed(d) == d[1] = 1 /\ Slice(d, 1, 3) = ChunkQuery /\ d[4] <= MaxSize
Handed(dev, d) ==
    IF WellFormed(d)
    THEN [declared |-> dev.declared + d[4],
          blob |-> dev.blob \o Slice(d, 4, IF 4 + d[4] > ReportLen THEN ReportLen ELSE 4 + d[4])]
    ELSE dev

\* read += size; out.extend_from_slice(&buf[0..size])
Accumulate(acc, b, size) == acc \o Slice(b, 0, size)

\* let size = self.read(0x01, &[0xeb, 0xb1], &mut buf)?; read += size; out.extend..
ViveChunkRead ==
    /\ pc = "vive_chunk_read"
    /\ \E d \in ChunkReplies :
        LET r == ViveRead(d, 1, Prefix, buf)
        IN  /\ (r.ret.tag = "Ok" /\ r.ret.val[1] > 0) => nchunks < MaxChunks
            /\ wire' = Push(wire, Event("read", d, TRUE))
            /\ buf' = r.out
            /\ IF r.ret.tag # "Ok"
               THEN /\ pc' = "done"
                    /\ ret' = r.ret
                    /\ UNCHANGED <<read, out, nchunks>>
               ELSE /\ read' = read + r.ret.val[1]
                    /\ out' = Accumulate(out, r.out, r.ret.val[1])
                    /\ nchunks' = IF r.ret.val[1] > 0 THEN nchunks + 1 ELSE nchunks
                    /\ pc' = LoopPc(read', total_len)
                    /\ UNCHANGED ret
            /\ device' = Handed(device, d)
    /\ UNCHANGED <<op, arg, report, read_retries, total_len, hidapi, fails>>

\* if read != total_len { return Err(Error::ProtocolError("config size mismatch")) }
SizeMismatch == ProtocolError("config size mismatch")

\* std::str::from_utf8 accepts every ASCII text; on other bytes the outcome
\* depends on the byte sequences, which the model leaves open.
Ascii(s) == \A i \in 1..Len(s) : s[i] < 128

\* the code after the loop: the size check, &out[128..], from_utf8, from_str
ViveAfterLoop ==
    /\ pc = "vive_after_loop"
    /\ pc' = "done"
    /\ IF read # total_len
       THEN ret' = SizeMismatch
       ELSE IF HeaderLen > Len(out)
       THEN ret' = Panic("range start index out of range for slice")
       ELSE LET text == Slice(out, HeaderLen, Len(out))
            IN  \E utf8 \in BOOLEAN, json \in BOOLEAN :
                  /\ Ascii(text) => utf8
                  /\ ret' = IF ~utf8 THEN ProtocolError("config is not utf-8")
                            ELSE IF ~json THEN Err("ConfigReadFailed")
                            ELSE Ok(text)
    /\ UNCHANGED <<op, arg, report, read_retries, out, buf, total_len, read,
                   hidapi, wire, fails, nchunks, device>>

---------------------------------------------------------------------------
\* ViveDevice::read_devsn and ViveDevice::read_ipd

ReadMfg == op \in {"vive_read_devsn", "vive_read_ipd"}

\* The device's replies to a manufacturing query: report id 2, a length byte,
\* the text; and reports with another id.
MfgSizes == {0, 1, 11, 62, 63, 255}
MfgReplies ==
    {Report64(<<2, n>>, s) : n \in MfgSizes, s \in Seeds}
    \cup {Report64(<<1, 4>>, 0)}

\* Bytes that occur in no UTF-8 text: std::str::from_utf8 rejects them.
NeverUtf8(s) == \E i \in 1..Len(s) : s[i] \in {192, 193} \cup (245..255)

MfgCall ==
    /\ pc = "idle"
    /\ pc' = "mfg_write"
    /\ op' \in {"vive_read_devsn", "vive_read_ipd"}
    /\ buf' = Zeros(BufLen)
    /\ UNCHANGED <<arg, ret, report, read_retries, out, total_len, read, hidapi,
                   wire, fails, nchunks, device>>

\* self.write(0x02, b"mfg-r-...")?
MfgWrite ==
    /\ pc = "mfg_write"
    /\ wire' = Push(wire, Event("write", Request, TRUE))
    /\ pc' = "mfg_read"
    /\ UNCHANGED <<op, arg, ret, report, read_retries, out, buf, total_len, read,
                   hidapi, fails, nchunks, device>>

\* let size = self.read(0x02, &[], &mut out)?;
\* Ok(from_utf8(&out[..size]).map_err(|_| ProtocolError("devsn is not a string"))?)
MfgRead ==
    /\ pc = "mfg_read"
    /\ \E d \in MfgReplies :
        LET r == ViveRead(d, 2, Prefix, buf)
        IN  /\ wire' = Push(wire, Event("read", d, TRUE))
            /\ buf' = r.out
            /\ pc' = "done"
            /\ IF r.ret.tag # "Ok"
               THEN ret' = r.ret
               ELSE LET text == Slice(r.out, 0, r.ret.val[1])
                    IN  \E utf8 \in BOOLEAN :
                          /\ Ascii(text) => utf8
                          /\ NeverUtf8(text) => ~utf8
                          /\ ret' = IF utf8 THEN Ok(text)
                                    ELSE ProtocolError("devsn is not a string")
    /\ UNCHANGED <<op, arg, report, read_retries, out, total_len, read, hidapi,
                   fails, nchunks, device>>

---------------------------------------------------------------------------
\* Resolution and ViveDevice::set_resolution

\* pub enum Resolution, in declaration order
Modes == <<"R2448x1224f90", "R2448x1224f120", "R3264x1632f90",
           "R3680x1836f90", "R4896x2448f90", "R4896x2448f120">>

\* (mutant) discriminants counted from one
DiscriminantFromOne(mode) ==
    CHOOSE i \in 1..6 : Modes[i] = mode

\* #[repr(u8)] discriminants: `resolution as u8`
Discriminant(mode) ==
    CASE mode = "R2448x1224f90" -> 0
      [] mode = "R2448x1224f120" -> 1
      [] mode = "R3264x1632f90" -> 2
      [] mode = "R3680x1836f90" -> 3
      [] mode = "R4896x2448f90" -> 4
      [] mode = "R4896x2448f120" -> 5

\* format!("{}", n) for a u8: the ASCII decimal digits of n
RECURSIVE Decimal(_)
Decimal(n) == IF n < 10 THEN <<48 + n>> ELSE Append(Decimal(n \div 10), 48 + (n % 10))

\* (mutant) the sub-id is written high byte first
WriteFeatureBigEndian(id, sub_id, data) ==
    IF Len(data) > ReportLen - 4
    THEN [ret |-> Panic("range end index out of range for slice"), report |-> Zeros(ReportLen)]
    ELSE [ret |-> Ok(<<>>),
          report |-> CopyInto(CopyInto(Zeros(ReportLen), 0,
                         <<id, sub_id \div 256, sub_id % 256, Len(data) % 256>>), 4, data)]

\* fn write_feature(&self, id, sub_id, data): the report handed to
\* send_feature_report, or the panic of report[4..][..data.len()]
WriteFeature(id, sub_id, data) ==
    IF Len(data) > ReportLen - 4
    THEN [ret |-> Panic("range end index out of range for slice"), report |-> Zeros(ReportLen)]
    ELSE [ret |-> Ok(<<>>),
          report |-> CopyInto(CopyInto(Zeros(ReportLen), 0,
                         <<id, sub_id % 256, sub_id \div 256, Len(data) % 256>>), 4, data)]

\* b"wireless,0"
Wireless0 == <<119, 105, 114, 101, 108, 101, 115, 115, 44, 48>>
\* format!("dtd,{}", resolution as u8).as_bytes()
Dtd(mode) == <<100, 116, 100, 44>> \o Decimal(Discriminant(mode))

\* the payload of the write_feature(0x04, 0x2970, ..) the call is about to make
SetResPayload == IF pc = "sr_wireless" THEN Wireless0 ELSE Dtd(arg[1])
\* where the call goes after a successful send
SetResNextPc(at) == IF at = "sr_wireless" THEN "sr_dtd" ELSE "done"

SetResolutionCall ==
    /\ pc = "idle"
    /\ \E m \in 1..Len(Modes) : arg' = <<Modes[m]>>
    /\ pc' = "sr_wireless"
    /\ op' = "set_resolution"
    /\ UNCHANGED <<ret, report, read_retries, out, buf, total_len, read, hidapi,
                   wire, fails, nchunks, device>>

\* self.0.send_feature_report(&report)? fails: the HidError is returned
FeatureSendFail ==
    /\ pc \in {"sr_wireless", "sr_dtd"}
    /\ wire' = Push(wire, Event("send_feature_report",
                                WriteFeature(4, 10608, SetResPayload).report, FALSE))
    /\ pc' = "done"
    /\ ret' = Err("Hid")
    /\ UNCHANGED <<op, arg, report, read_retries, out, buf, total_len, read,
                   hidapi, fails, nchunks, device>>

\* self.write_feature(0x04, 0x2970, ..)? succeeds; after the second: Ok(())
FeatureSendOk ==
    /\ pc \in {"sr_wireless", "sr_dtd"}
    /\ wire' = Push(wire, Event("send_feature_report",
                                WriteFeature(4, 10608, SetResPayload).report, TRUE))
    /\ pc' = SetResNextPc(pc)
    /\ ret' = IF pc' = "done" THEN Ok(<<>>) ELSE ret
    /\ UNCHANGED <<op, arg, report, read_retries, out, buf, total_len, read,
                   hidapi, fails, nchunks, device>>

---------------------------------------------------------------------------
\* The locals of a call that has not run yet, and the empty OnceCell.
Fresh ==
    /\ ret = NoRet
    /\ report = Zeros(ReportLen)
    /\ read_retries = 0
    /\ out = <<>>
    /\ buf = Zeros(BufLen)
    /\ total_len = 0
    /\ read = 0
    /\ hidapi = [init |-> FALSE, devices |-> <<>>, running |-> FALSE]
    /\ wire = <<>>
    /\ fails = 0
    /\ nchunks = 0
    /\ device = [declared |-> 0, blob |-> <<>>]

\* An open handle of either family on which no call has been made.
Init ==
    /\ pc = "idle"
    /\ op = "none"
    /\ arg = <<>>
    /\ Fresh

Next ==
    \/ SteamCall
    \/ SteamInitFail
    \/ SteamInitOk
    \/ SteamChunkFail
    \/ SteamChunkOk
    \/ SteamDecode
    \/ ViveCall
    \/ ViveWriteFail
    \/ ViveReadFail
    \/ ViveLenWrite
    \/ ViveLenRead
    \/ ViveChunkWrite
    \/ ViveChunkRead
    \/ ViveAfterLoop
    \/ MfgCall
    \/ MfgWrite
    \/ MfgRead
    \/ SetResolutionCall
    \/ FeatureSendFail
    \/ FeatureSendOk

Spec == Init /\ [][Next]_vars

\* The calling thread runs the call without interruption: some step of the
\* running call is always taken.  The device's replies are not constrained.
FairSpec == Spec /\ WF_vars(Next)

---------------------------------------------------------------------------
\* get_hidapi and SteamDevice::open / ViveDevice::open / open_first

\* What HidApi::new() may enumerate: (serial, vendor id, product id).
Serials == {"A", "B"}
IdPairs == {<<STEAM_VID, STEAM_PID>>, <<VIVE_VID, VIVE_PID>>, <<STEAM_VID, VIVE_PID>>}
Devices == {[sn |-> n, vid |-> p[1], pid |-> p[2]] : n \in Serials, p \in IdPairs}
DeviceLists == UNION {[1..n -> Devices] : n \in 0..MaxDevs}

\* api.device_list().find(|dev| dev.serial_number() == Some(sn)): the index
\* of the first match, 0 if there is none
Find(devs, sn) ==
    IF \E i \in 1..Len(devs) : devs[i].sn = sn
    THEN CHOOSE i \in 1..Len(devs) :
            devs[i].sn = sn /\ \A j \in 1..(i - 1) : devs[j].sn # sn
    ELSE 0

\* The pair open() compares the match with:
\*   SteamDevice::open: device.vendor_id() != STEAM_VID || device.product_id() != STEAM_PID
\*   ViveDevice::open:  device.vendor_id() != STEAM_VID || device.product_id() != STEAM_PID
CheckedPair(o) == <<STEAM_VID, STEAM_PID>>

\* The pair open_first() hands to api.open.
FirstPair(o) ==
    IF o = "steam_open_first" THEN <<STEAM_VID, STEAM_PID>> ELSE <<VIVE_VID, VIVE_PID>>

OpenCall ==
    /\ pc = "idle"
    /\ \E o \in {"steam_open", "vive_open"}, sn \in Serials :
        /\ op' = o
        /\ arg' = <<sn>>
    /\ pc' = "get_hidapi"
    /\ UNCHANGED <<ret, report, read_retries, out, buf, total_len, read, hidapi,
                   wire, fails, nchunks, device>>

OpenFirstCall ==
    /\ pc = "idle"
    /\ \E o \in {"steam_open_first", "vive_open_first"} : op' = o
    /\ arg' = <<>>
    /\ pc' = "get_hidapi"
    /\ UNCHANGED <<ret, report, read_retries, out, buf, total_len, read, hidapi,
                   wire, fails, nchunks, device>>

\* HIDAPI.get_or_try_init(|| HidApi::new()): the cell is empty and
\* HidApi::new() fails; the cell stays empty and the error is returned
HidapiInitFail ==
    /\ pc = "get_hidapi"
    /\ ~hidapi.init
    /\ pc' = "done"
    /\ ret' = Err("Hid")
    /\ UNCHANGED <<op, arg, report, read_retries, out, buf, total_len, read,
                   hidapi, wire, fails, nchunks, device>>

\* the cell is empty and HidApi::new() succeeds: the cell is filled
HidapiInitOk ==
    /\ pc = "get_hidapi"
    /\ ~hidapi.init
    /\ \E devs \in DeviceLists : hidapi' = [hidapi EXCEPT !.init = TRUE, !.devices = devs]
    /\ pc' = IF op \in {"steam_open", "vive_open"} THEN "find" ELSE "open_first"
    /\ UNCHANGED <<op, arg, ret, report, read_retries, out, buf, total_len, read,
                   wire, fails, nchunks, device>>

\* the cell is full: the shared instance is returned
HidapiGet ==
    /\ pc = "get_hidapi"
    /\ hidapi.init
    /\ pc' = IF op \in {"steam_open", "vive_open"} THEN "find" ELSE "open_first"
    /\ UNCHANGED <<op, arg, ret, report, read_retries, out, buf, total_len, read,
                   hidapi, wire, fails, nchunks, device>>

\* .find(..).ok_or(Error::DeviceNotFound)?; the vendor/product check
OpenFind ==
    /\ pc = "find"
    /\ LET i == Find(hidapi.devices, arg[1])
       IN  IF i = 0
           THEN pc' = "done" /\ ret' = Err("DeviceNotFound")
           ELSE IF <<hidapi.devices[i].vid, hidapi.devices[i].pid>> # CheckedPair(op)
           THEN pc' = "done" /\ ret' = Err("NotAVive")
           ELSE pc' = "open_serial" /\ UNCHANGED ret
    /\ UNCHANGED <<op, arg, report, read_retries, out, buf, total_len, read,
                   hidapi, wire, fails, nchunks, device>>

\* api.open_serial(device.vendor_id(), device.product_id(), sn)?; Ok(Self(open))
OpenSerial ==
    /\ pc = "open_serial"
    /\ LET d == hidapi.devices[Find(hidapi.devices, arg[1])]
       IN  \E ok \in BOOLEAN :
            /\ wire' = Push(wire, Event("open_serial", <<d.vid, d.pid, arg[1]>>, ok))
            /\ ret' = IF ok THEN Ok(<<d.vid, d.pid, arg[1]>>) ELSE Err("Hid")
    /\ pc' = "done"
    /\ UNCHANGED <<op, arg, report, read_retries, out, buf, total_len, read,
                   hidapi, fails, nchunks, device>>

\* api.open(VID, PID)?; Ok(Self(device))
OpenFirst ==
    /\ pc = "open_first"
    /\ \E ok \in BOOLEAN :
        /\ wire' = Push(wire, Event("open", FirstPair(op), ok))
        /\ ret' = IF ok THEN Ok(FirstPair(op)) ELSE Err("Hid")
    /\ pc' = "done"
    /\ UNCHANGED <<op, arg, report, read_retries, out, buf, total_len, read,
                   hidapi, fails, nchunks, device>>

\* The caller takes the result; the static HIDAPI outlives the call.
OpenReturn ==
    /\ pc = "done"
    /\ pc' = "idle"
    /\ op' = "none"
    /\ arg' = <<>>
    /\ ret' = NoRet
    /\ wire' = <<>>
    /\ UNCHANGED <<report, read_retries, out, buf, total_len, read, hidapi,
                   fails, nchunks, device>>

\* The process before any handle is opened.
OpenInit ==
    /\ pc = "idle"
    /\ op = "none"
    /\ arg = <<>>
    /\ Fresh

OpenNext ==
    \/ OpenCall
    \/ OpenFirstCall
    \/ HidapiInitFail
    \/ HidapiInitOk
    \/ HidapiGet
    \/ OpenFind
    \/ OpenSerial
    \/ OpenFirst
    \/ OpenReturn

OpenSpec == OpenInit /\ [][OpenNext]_vars

\* The vendor/product pair of each family.
OwnPair(o) == IF o = "steam_open" THEN <<10462, 8960>> ELSE <<2996, 834>>

\* C5 (as claimed): when the first device with the requested serial does not
\* carry the family's own vendor/product pair, open fails with NotAVive and
\* open_serial is never called; when it does, open goes on to open_serial
\* with that pair and serial.
C5_OpenChecksOwnPair ==
    (op \in {"steam_open", "vive_open"} /\ pc \in {"open_serial", "done"}
        /\ hidapi.init /\ Find(hidapi.devices, arg[1]) # 0)
    => LET m == hidapi.devices[Find(hidapi.devices, arg[1])]
       IN  /\ <<m.vid, m.pid>> # OwnPair(op) =>
                (pc = "done" /\ ret = Err("NotAVive") /\ wire = <<>>)
           /\ <<m.vid, m.pid>> = OwnPair(op) =>
                \/ pc = "open_serial"
                \/ /\ pc = "done"
                   /\ Len(wire) = 1
                   /\ wire[1].call = "open_serial"
                   /\ wire[1].report = <<m.vid, m.pid, arg[1]>>

---------------------------------------------------------------------------
\* get_hidapi called from several threads.  pc and ret are per thread here.
\* HIDAPI is a once_cell::sync::OnceCell: get_or_try_init returns the value
\* if the cell is full; otherwise one caller at a time runs the closure
\* while the others wait, a closure that fails leaves the cell empty, and
\* one that succeeds fills it.

Threads == 1..MaxThreads

\* (mutant) a caller starts the closure whenever it sees the cell empty
CanInitRacy(cell) == ~cell.init

\* a caller may start the closure: the cell is empty and no closure runs
CanInit(cell) == ~cell.init /\ ~cell.running

ThreadUnchanged ==
    UNCHANGED <<op, arg, report, read_retries, out, buf, total_len, read,
                wire, fails, nchunks, device>>

GetHidapiCall(t) ==
    /\ pc[t] = "idle"
    /\ pc' = [pc EXCEPT ![t] = "get"]
    /\ UNCHANGED <<ret, hidapi>>
    /\ ThreadUnchanged

\* the cell is seen full: Ok(&value)
CellFull(t) ==
    /\ pc[t] \in {"get", "initialize"}
    /\ hidapi.init
    /\ pc' = [pc EXCEPT ![t] = "done"]
    /\ ret' = [ret EXCEPT ![t] = Ok(hidapi.devices)]
    /\ UNCHANGED hidapi
    /\ ThreadUnchanged

\* the cell is seen empty: the caller goes on to initialize it
CellEmpty(t) ==
    /\ pc[t] = "get"
    /\ ~hidapi.init
    /\ pc' = [pc EXCEPT ![t] = "initialize"]
    /\ UNCHANGED <<ret, hidapi>>
    /\ ThreadUnchanged

\* the caller becomes the one that runs || HidApi::new()
CellStart(t) ==
    /\ pc[t] = "initialize"
    /\ CanInit(hidapi)
    /\ hidapi' = [hidapi EXCEPT !.running = TRUE]
    /\ pc' = [pc EXCEPT ![t] = "new"]
    /\ UNCHANGED ret
    /\ ThreadUnchanged

\* HidApi::new() succeeds: the cell is filled, Ok(&value)
NewOk(t) ==
    /\ pc[t] = "new"
    /\ \E devs \in DeviceLists :
        /\ hidapi' = [init |-> TRUE, devices |-> devs, running |-> FALSE]
        /\ ret' = [ret EXCEPT ![t] = Ok(devs)]
    /\ pc' = [pc EXCEPT ![t] = "done"]
    /\ ThreadUnchanged

\* HidApi::new() fails: the cell stays empty, .map_err(From::from)
NewFail(t) ==
    /\ pc[t] = "new"
    /\ hidapi' = [hidapi EXCEPT !.running = FALSE]
    /\ ret' = [ret EXCEPT ![t] = Err("Hid")]
    /\ pc' = [pc EXCEPT ![t] = "done"]
    /\ ThreadUnchanged

\* the caller takes the result and may call again
GetHidapiReturn(t) ==
    /\ pc[t] = "done"
    /\ pc' = [pc EXCEPT ![t] = "idle"]
    /\ ret' = [ret EXCEPT ![t] = NoRet]
    /\ UNCHANGED hidapi
    /\ ThreadUnchanged

\* The process before any thread has called get_hidapi.
ThreadInit ==
    /\ pc = [t \in Threads |-> "idle"]
    /\ ret = [t \in Threads |-> NoRet]
    /\ op = "get_hidapi"
    /\ arg = <<>>
    /\ report = Zeros(ReportLen)
    /\ read_retries = 0
    /\ out = <<>>
    /\ buf = Zeros(BufLen)
    /\ total_len = 0
    /\ read = 0
    /\ hidapi = [init |-> FALSE, devices |-> <<>>, running |-> FALSE]
    /\ wire = <<>>
    /\ fails = 0
    /\ nchunks = 0
    /\ device = [declared |-> 0, blob |-> <<>>]

ThreadNext ==
    \E t \in Threads :
        \/ GetHidapiCall(t)
        \/ CellFull(t)
        \/ CellEmpty(t)
        \/ CellStart(t)
        \/ NewOk(t)
        \/ NewFail(t)
        \/ GetHidapiReturn(t)

ThreadSpec == ThreadInit /\ [][ThreadNext]_vars

\* C17: once the cell is initialized it is never written again (so it is
\* initialized at most once), and every successful call returns the
\* instance the cell holds, whatever the interleaving of the callers.
C17_InitOnce ==
    [][/\ hidapi.init => hidapi' = hidapi
       /\ \A t \in Threads :
            ret'[t].tag = "Ok" => (hidapi'.init /\ ret'[t].val = hidapi'.devices)]_vars
\* two threads raced for the empty cell and both hold the same instance
C17_Witness ==
    /\ hidapi.init /\ hidapi.devices # <<>>
    /\ \A t \in Threads : ret[t] = Ok(hidapi.devices)

---------------------------------------------------------------------------
\* The report codec on its own: ViveDevice::read applied to any report, and
\* write_feature followed by a read of the report it built.

Ids == {1, 2, 4}
Prefixes == {<<>>, LenQuery, ChunkQuery}
ReplySizes == {0, 1, 4, 59, 60, 61, 62, 63, 255}
SubIds == {0, 255, 256, 10608, 65535}
\* The reports a device may deliver to read: any id, any prefix, any length byte.
AnyReplies ==
    {Report64(<<i>> \o p \o <<n>>, s) :
        i \in Ids, p \in Prefixes \cup {<<235, 0>>}, n \in ReplySizes, s \in Seeds}
\* The payloads handed to write_feature.
Payloads == {[i \in 1..l |-> Fill(s, i)] : l \in 0..MaxPayload, s \in Seeds}

\* sub_id as the two bytes read() is given as strip_prefix
SubIdPrefix(sub_id) == <<sub_id % 256, sub_id \div 256>>

CodecInit ==
    /\ pc = "codec"
    /\ \/ /\ op = "read"
          /\ arg \in {[data |-> d, id |-> i, prefix |-> p] :
                        d \in AnyReplies, i \in {1, 2}, p \in Prefixes}
       \/ /\ op = "write_feature"
          /\ arg \in {[id |-> i, sub_id |-> s, data |-> d] :
                        i \in Ids, s \in SubIds, d \in Payloads}
    /\ Fresh

\* read(id, strip_prefix, &mut out) on the report the transport delivered
CodecRead ==
    /\ pc = "codec"
    /\ op = "read"
    /\ LET r == ViveRead(arg.data, arg.id, arg.prefix, buf)
       IN  ret' = r.ret /\ buf' = r.out
    /\ wire' = Push(wire, Event("read", arg.data, TRUE))
    /\ pc' = "done"
    /\ UNCHANGED <<op, arg, report, read_retries, out, total_len, read, hidapi,
                   fails, nchunks, device>>

\* write_feature(id, sub_id, data): the report goes out on the wire
CodecWriteFeature ==
    /\ pc = "codec"
    /\ op = "write_feature"
    /\ LET w == WriteFeature(arg.id, arg.sub_id, arg.data)
       IN  IF w.ret.tag = "Panic"
           THEN pc' = "done" /\ ret' = w.ret /\ UNCHANGED wire
           ELSE /\ pc' = "codec_read"
                /\ wire' = Push(wire, Event("send_feature_report", w.report, TRUE))
                /\ UNCHANGED ret
    /\ UNCHANGED <<op, arg, report, read_retries, out, buf, total_len, read,
                   hidapi, fails, nchunks, device>>

\* the report that was sent is read back with the same id and sub-id
CodecReadBack ==
    /\ pc = "codec_read"
    /\ LET r == ViveRead(wire[Len(wire)].report, arg.id, SubIdPrefix(arg.sub_id), buf)
       IN  ret' = r.ret /\ buf' = r.out
    /\ pc' = "done"
    /\ UNCHANGED <<op, arg, report, read_retries, out, total_len, read, hidapi,
                   wire, fails, nchunks, device>>

CodecNext ==
    \/ CodecRead
    \/ CodecWriteFeature
    \/ CodecReadBack

CodecSpec == CodecInit /\ [][CodecNext]_vars

\* C6 (as claimed): read fails with a ProtocolError when byte 0 is not id,
\* when the bytes after it are not strip_prefix, or when the length byte
\* exceeds 62; on every other report it returns the length byte and has
\* copied that many bytes, the ones after the length byte, into out.
C6_ReadContract ==
    (op = "read" /\ Done) =>
        LET d == arg.data
            plen == Len(arg.prefix)
            n == d[plen + 2]
            rejected == \/ d[1] # arg.id
                        \/ \E i \in 1..plen : d[1 + i] # arg.prefix[i]
                        \/ n > 62
        IN  IF rejected
            THEN ret.tag = "Err" /\ ret.err = "ProtocolError"
            ELSE /\ ret = Ok(<<n>>)
                 /\ \A i \in 1..n : buf[i] = d[plen + 2 + i]

\* C7: for every id, sub-id and payload of at most 60 bytes, the report that
\* write_feature builds, read with the sub-id's two little-endian bytes as
\* prefix, gives back the payload's length and bytes.
C7_FramingRoundTrip ==
    (op = "write_feature" /\ Done /\ Len(arg.data) <= 60) =>
        /\ ret = Ok(<<Len(arg.data)>>)
        /\ SubSeq(buf, 1, Len(arg.data)) = arg.data
C7_Witness ==
    /\ op = "write_feature" /\ Done /\ Len(arg.data) = 60 /\ arg.sub_id = 10608
    /\ ret.tag = "Ok"

---------------------------------------------------------------------------
\* The Resolution table on its own.

\* pub fn resolution(&self) -> (u32, u32)
Resolution(mode) ==
    CASE mode = "R2448x1224f90" -> <<2448, 1224>>
      [] mode = "R2448x1224f120" -> <<2448, 1224>>
      [] mode = "R3264x1632f90" -> <<3264, 1632>>
      [] mode = "R3680x1836f90" -> <<3680, 1836>>
      [] mode = "R4896x2448f90" -> <<4896, 2448>>
      [] mode = "R4896x2448f120" -> <<4896, 2448>>

\* pub fn frame_rate(&self) -> f32, in hundredths of a frame per second
FrameRate(mode) ==
    CASE mode = "R2448x1224f90" -> 9003
      [] mode = "R2448x1224f120" -> 12005
      [] mode = "R3264x1632f90" -> 9000
      [] mode = "R3680x1836f90" -> 9002
      [] mode = "R4896x2448f90" -> 9002
      [] mode = "R4896x2448f120" -> 12002

\* (mutant) values past the table fall back to the last mode
TryFromClamped(value) ==
    IF value < 6 THEN Ok(<<Modes[value + 1]>>) ELSE Ok(<<Modes[6]>>)

\* impl TryFrom<u8> for Resolution
TryFrom(value) ==
    CASE value = 0 -> Ok(<<"R2448x1224f90">>)
      [] value = 1 -> Ok(<<"R2448x1224f120">>)
      [] value = 2 -> Ok(<<"R3264x1632f90">>)
      [] value = 3 -> Ok(<<"R3680x1836f90">>)
      [] value = 4 -> Ok(<<"R4896x2448f90">>)
      [] value = 5 -> Ok(<<"R4896x2448f120">>)
      [] OTHER -> Err("()")

\* Every u8 is a possible input.
ResolutionInit ==
    /\ pc = "try_from"
    /\ op = "try_from"
    /\ arg \in {<<v>> : v \in 0..255}
    /\ Fresh

\* Resolution::try_from(value)
ResolutionTryFrom ==
    /\ pc = "try_from"
    /\ ret' = TryFrom(arg[1])
    /\ pc' = IF ret'.tag = "Ok" THEN "lookup" ELSE "done"
    /\ UNCHANGED <<op, arg, report, read_retries, out, buf, total_len, read,
                   hidapi, wire, fails, nchunks, device>>

\* mode.resolution() and mode.frame_rate() of the mode that was built
ResolutionLookup ==
    /\ pc = "lookup"
    /\ out' = Resolution(ret.val[1]) \o <<FrameRate(ret.val[1])>>
    /\ pc' = "done"
    /\ UNCHANGED <<op, arg, ret, report, read_retries, buf, total_len, read,
                   hidapi, wire, fails, nchunks, device>>

ResolutionNext ==
    \/ ResolutionTryFrom
    \/ ResolutionLookup

ResolutionSpec == ResolutionInit /\ [][ResolutionNext]_vars

\* The fixed table: width, height, frame rate (hundredths) of index 0..5.
ModeTable ==
    <<<<2448, 1224, 9003>>, <<2448, 1224, 12005>>, <<3264, 1632, 9000>>,
      <<3680, 1836, 9002>>, <<4896, 2448, 9002>>, <<4896, 2448, 12002>>>>

\* C8: try_from(v) for v in 0..5 yields the mode whose index, as sent in the
\* dtd command, is v and whose forward lookup is entry v of the table; for
\* v >= 6 it fails and yields no mode.
C8_ReverseLookup ==
    (op = "try_from" /\ Done) =>
        IF arg[1] <= 5
        THEN /\ ret.tag = "Ok"
             /\ Discriminant(ret.val[1]) = arg[1]
             /\ Dtd(ret.val[1]) = <<100, 116, 100, 44, 48 + arg[1]>>
             /\ out = ModeTable[arg[1] + 1]
        ELSE ret.tag = "Err" /\ ret.val = <<>> /\ out = <<>>
C8_Witness == op = "try_from" /\ Done /\ arg[1] = 5 /\ ret.tag = "Ok"

---------------------------------------------------------------------------
\* Properties of the two read_config calls and of set_resolution.

\* C1 (as claimed): a read whose transport fails k consecutive times and then
\* succeeds goes on if k <= 5, and the call has failed with ConfigReadFailed
\* once k >= 6, for the report-16 read and for every report-17 read.
C1_RetryPolicy ==
    Steam =>
        /\ fails >= 6 => (Done /\ ret = Err("ConfigReadFailed"))
        /\ (Done /\ ret = Err("ConfigReadFailed") /\ fails > 0) => fails >= 6

\* C11 (as claimed): when the Steam transfer loop is left, the accumulator is
\* the concatenation of the data bytes of every successful report-17 reply,
\* and the loop was left by a reply with n = 0 or by retry exhaustion.
C11_SteamReassembly ==
    (Steam /\ pc \in {"steam_decode", "done"}) =>
        /\ out = device.blob
        /\ LET e == wire[Len(wire)]
           IN  \/ e.ok /\ e.report[1] = 17 /\ e.report[2] = 0
               \/ ~e.ok /\ ret = Err("ConfigReadFailed")

\* C12: the retry counter equals the number of consecutive failed reads since
\* the last successful one: it is zero when the init read starts, after every
\* successful read and when the chunk reads start; the retry path returns
\* ConfigReadFailed only at the end of an unbroken run of failures.
C12_RetryReset ==
    Steam =>
        /\ pc \in {"steam_init", "steam_chunk"} => read_retries = fails
        /\ pc = "steam_decode" => (read_retries = 0 /\ fails = 0)
        /\ (Done /\ ret = Err("ConfigReadFailed") /\ ~wire[Len(wire)].ok) =>
              /\ fails = read_retries + 1
              /\ fails > 1
              /\ \A i \in 1..Len(wire) : ~wire[i].ok
\* a failed read followed by a successful one, after which the call goes on
C12_Witness ==
    /\ Steam /\ pc = "steam_chunk" /\ nchunks >= 2 /\ read_retries = 0
    /\ Len(wire) >= 2 /\ ~wire[Len(wire) - 1].ok /\ wire[Len(wire)].ok

\* The reply `d` to the request `q` breaks the protocol: another report id
\* or prefix than the request's, a length byte above 62, or a reply to the
\* length query that does not carry 4 bytes.
Violates(q, d) ==
    LET prefix == IF q[1] = 1 THEN <<q[2], q[3]>> ELSE <<>>
        plen == Len(prefix)
    IN  \/ d[1] # q[1]
        \/ Slice(d, 1, 1 + plen) # prefix
        \/ d[2 + plen] > 62
        \/ q[1] = 1 /\ q[2] = 234 /\ d[2 + plen] # 4

\* C13 (as claimed): on the Vive path a failed write or read, or a reply that
\* breaks the protocol, ends the call at once with an error; no transport
\* operation follows it.
C13_NoRetry ==
    ((Vive \/ ReadMfg) /\ Len(wire) >= 1) =>
        LET n == Len(wire)
            e == wire[n]
        IN  /\ \A i \in 1..(n - 1) : wire[i].ok
            /\ \A i \in 2..(n - 1) :
                  wire[i].call = "read" => ~Violates(wire[i - 1].report, wire[i].report)
            /\ ~e.ok => (Done /\ ret = Err("Hid"))
            /\ (e.ok /\ e.call = "read" /\ Violates(wire[n - 1].report, e.report)) =>
                  (Done /\ ret.tag = "Err" /\ ret.err = "ProtocolError")

\* The 32-bit little-endian number in bytes 4..7 of a request report.
OffsetField(r) == r[5] + 256 * r[6] + 65536 * r[7] + 16777216 * r[8]

\* C14: every chunk request of ViveDevice::read_config (sent or failed) is
\* report 1 with eb b1 04 and, as little-endian offset, the number of bytes
\* accumulated so far, which is the sum of the sizes of the chunk replies
\* before it (0 for the first); it is made only while that number is below
\* the declared total.
C14_ChunkAddressing ==
    (Vive /\ Len(wire) >= 1 /\ wire[Len(wire)].call = "write"
          /\ wire[Len(wire)].report[2] = 235) =>
        LET q == wire[Len(wire)].report
        IN  /\ Slice(q, 0, 4) = <<1, 235, 177, 4>>
            /\ OffsetField(q) = read
            /\ \A i \in 9..ReportLen : q[i] = 0
            /\ read = Len(out)
            /\ read = device.declared
            /\ nchunks = 0 => OffsetField(q) = 0
            /\ read < total_len
\* the third request, after chunks of 60 and 10 bytes
C14_Witness ==
    /\ Vive /\ pc = "vive_chunk_read" /\ read = 70 /\ nchunks = 2
    /\ wire[Len(wire)].report[5] = 70

\* C15 (as claimed): when the last transport operation is the reply to the
\* length query (so no chunk request has been sent), a reply whose payload
\* size is not 4 has ended the call with a ProtocolError; after a reply of
\* 4 bytes the declared total is their little-endian value.
C15_LengthReply ==
    (Vive /\ Len(wire) >= 2 /\ wire[Len(wire)].call = "read" /\ wire[Len(wire)].ok
          /\ wire[Len(wire) - 1].report[2] = 234
          /\ Slice(wire[Len(wire)].report, 0, 3) = <<1, 234, 177>>) =>
        LET d == wire[Len(wire)].report
        IN  /\ d[4] # 4 => (Done /\ ret.tag = "Err" /\ ret.err = "ProtocolError")
            /\ d[4] = 4 => total_len = OffsetField(d)

\* C16: SteamDevice::read_config only issues get_feature_report with id 16
\* or 17; until a report-16 read has succeeded every attempt is a report-16
\* read; a report-16 read is never made after a successful report-16 read or
\* after any report-17 read; in the chunk phase every attempt, retries
\* included, is a report-17 read.
C16_SteamOrdering ==
    Steam =>
        /\ \A i \in 1..Len(wire) :
              wire[i].call = "get_feature_report" /\ wire[i].report[1] \in {16, 17}
        /\ pc = "steam_init" =>
              \A i \in 1..Len(wire) : wire[i].report[1] = 16 /\ ~wire[i].ok
        /\ \A i \in 1..(Len(wire) - 1) :
              /\ wire[i + 1].report[1] = 16 => (wire[i].report[1] = 16 /\ ~wire[i].ok)
              /\ wire[i + 1].report[1] = 17 => (wire[i].report[1] = 17 \/ wire[i].ok)
        /\ (pc \in {"steam_chunk", "steam_decode"} /\ wire[Len(wire)].report[1] = 16) =>
              wire[Len(wire)].ok
\* a failed report-17 attempt right after the successful init read, then a
\* retry that succeeds
C16_Witness ==
    /\ Steam /\ pc = "steam_chunk" /\ nchunks = 1 /\ Len(wire) >= 2
    /\ wire[Len(wire) - 1].report[1] = 17 /\ ~wire[Len(wire) - 1].ok
    /\ wire[Len(wire)].report[1] = 17 /\ wire[Len(wire)].ok

\* C18 (as claimed): after a successful report-17 read, whatever its length
\* byte n, the call has not aborted, and the n bytes it appended are bytes
\* 2..2+n-1 of the report, all of them inside its 64 bytes.
C18_SteamChunkInBounds ==
    (Steam /\ Len(wire) >= 1 /\ wire[Len(wire)].ok
           /\ wire[Len(wire)].report[1] = 17) =>
        LET d == wire[Len(wire)].report
            n == d[2]
        IN  /\ ret.tag # "Panic"
            /\ n > 0 =>
                  /\ 2 + n <= ReportLen
                  /\ Len(out) >= n
                  /\ \A i \in 1..n : out[Len(out) - n + i] = d[2 + i]

\* C19 (as claimed): once the transfer loop of ViveDevice::read_config has
\* ended, whatever the declared total, the call returns a config or an
\* Error; the header skip does not abort it.
C19_HeaderSkip ==
    (Vive /\ Done /\ Len(wire) >= 1 /\ wire[Len(wire)].ok
          /\ ~LoopCond(read, total_len) /\ ret.msg # "range end index out of range for slice") =>
        /\ ret.tag \in {"Ok", "Err"}
        /\ ret.tag = "Ok" => (Len(out) >= HeaderLen /\ ret.val = Slice(out, HeaderLen, Len(out)))

\* C2 (as claimed): once the chunk replies of at most 62 bytes each that the
\* device handed out sum to the declared total, the loop has ended with an
\* accumulator of exactly total bytes, the concatenation of their payloads.
C2_Reassembly ==
    (Vive /\ pc \in {"vive_chunk_write", "vive_chunk_read", "vive_after_loop", "done"}
          /\ device.declared > 0 /\ device.declared = total_len)
        => /\ ret.tag # "Panic"
           /\ pc \in {"vive_after_loop", "done"}
           /\ Len(out) = total_len
           /\ out = device.blob

\* The states of the Vive transfer loop and right after it.
InTransfer == Vive /\ pc \in {"vive_chunk_write", "vive_chunk_read", "vive_after_loop"}

\* C3 (as claimed): during the transfer the accumulator never holds more
\* than the declared total, and the loop is finished exactly when it holds
\* the declared total.
C3_AccumulatorOrig ==
    InTransfer =>
        /\ Len(out) <= total_len
        /\ (pc = "vive_after_loop") <=> (Len(out) = total_len)

\* C3 (amended): the accumulator holds `read` bytes, fewer than the declared
\* total while a chunk is requested and at most 59 more than it after the
\* last chunk; the loop is finished exactly when it holds at least the
\* declared total, and a config is returned only when it holds exactly that.
C3_Accumulator ==
    /\ InTransfer =>
        /\ Len(out) = read
        /\ Len(out) < total_len + 60
        /\ (pc = "vive_after_loop") <=> (Len(out) >= total_len)
    /\ (Vive /\ Done /\ ret.tag = "Ok") => Len(out) = total_len
C3_Witness == pc = "vive_after_loop" /\ Len(out) > total_len

\* C4 (as claimed): when the loop has ended with more bytes than declared,
\* the call fails with Error::ConfigSizeMismatch and returns no config.
C4_SizeMismatch ==
    (Vive /\ Done /\ read > total_len) => ret = Err("ConfigSizeMismatch")

\* C9 (as claimed): every call that was started eventually returns.
C9_Terminates == (pc # "idle") ~> Done

\* The feature report set_resolution is expected to send for a payload.
ExpectedFeature(payload) ==
    [i \in 1..64 |-> IF i <= 4 THEN <<4, 112, 41, Len(payload)>>[i]
                     ELSE IF i <= 4 + Len(payload) THEN payload[i - 4] ELSE 0]
\* "dtd,<index>" for the mode at 0-based position `index` of the table
ExpectedDtd(mode) ==
    LET index == CHOOSE i \in 0..5 : Modes[i + 1] = mode
    IN  <<100, 116, 100, 44, 48 + index>>
SentFirst(ok) == Event("send_feature_report", ExpectedFeature(Wireless0), ok)
SentSecond(ok) == Event("send_feature_report", ExpectedFeature(ExpectedDtd(arg[1])), ok)

\* C10: set_resolution sends "wireless,0" and then "dtd,<index>" under sub-id
\* 0x2970, the second only after the first succeeded; a failed send ends the
\* call with that error, and the call issues nothing else.
C10_SetResolutionOrder ==
    SetRes =>
        /\ pc = "sr_wireless" => wire = <<>>
        /\ pc = "sr_dtd" => wire = <<SentFirst(TRUE)>>
        /\ (Done /\ ret.tag = "Ok") => wire = <<SentFirst(TRUE), SentSecond(TRUE)>>
        /\ (Done /\ ret.tag # "Ok") =>
              /\ ret = Err("Hid")
              /\ wire \in {<<SentFirst(FALSE)>>, <<SentFirst(TRUE), SentSecond(FALSE)>>}
        /\ pc \in {"sr_wireless", "sr_dtd", "done"}
C10_Witness == SetRes /\ Done /\ ret.tag = "Ok" /\ arg[1] = "R4896x2448f120"
====
